---- MODULE Spec2Model ----
(***************************************************************************)
(* webpage.py: the validation of the command line, the main loop over the  *)
(* seed addresses, crawl_web's loop over the discovery stack and the       *)
(* printing of the link tree.                                              *)
(*                                                                         *)
(* Addresses are strings, modelled as sequences of one-character strings,  *)
(* so that lower(), "in", startswith(), split('#') and + "-BROKEN" are     *)
(* computed as Python computes them.                                       *)
(***************************************************************************)
EXTENDS Integers, Sequences, FiniteSets

(***************************************************************************)
(* Bounds of the model.                                                    *)
(***************************************************************************)
MaxSeeds == 2
MaxUserDepth == 1

(***************************************************************************)
(* Strings.                                                                *)
(***************************************************************************)
Upper == <<"A","B","C","D","E","F","G","H","I","J","K","L","M",
           "N","O","P","Q","R","S","T","U","V","W","X","Y","Z">>
LowerLetters == <<"a","b","c","d","e","f","g","h","i","j","k","l","m",
                  "n","o","p","q","r","s","t","u","v","w","x","y","z">>

\* the lower-case form of every character (tabulated once)
Characters ==
    {Upper[i] : i \in DOMAIN Upper} \cup {LowerLetters[i] : i \in DOMAIN LowerLetters}
        \cup {":", "/", "#", "-", "1", "2", "3", "4"}
LowerChar ==
    [c \in Characters |->
        IF \E i \in DOMAIN Upper : Upper[i] = c
        THEN LowerLetters[CHOOSE i \in DOMAIN Upper : Upper[i] = c]
        ELSE c]

\* str.lower()
Lower(s) == [i \in 1..Len(s) |-> LowerChar[s[i]]]

\* sub in s
Contains(sub, s) ==
    \E i \in 0..(Len(s) - Len(sub)) : SubSeq(s, i + 1, i + Len(sub)) = sub

\* s.startswith(p)
StartsWith(s, p) == Len(s) >= Len(p) /\ SubSeq(s, 1, Len(p)) = p

\* s.split('#')[0]
SplitHash(s) ==
    IF \E i \in 1..Len(s) : s[i] = "#"
    THEN SubSeq(s, 1, (CHOOSE i \in 1..Len(s) :
                          s[i] = "#" /\ \A j \in 1..(i - 1) : s[j] # "#") - 1)
    ELSE s

\* int(s) for a decimal literal with an optional minus sign; Python raises
\* ValueError for any other text the model uses
Digits == <<"0","1","2","3","4","5","6","7","8","9">>
IsDigits(s) ==
    Len(s) >= 1 /\ \A i \in 1..Len(s) : \E d \in DOMAIN Digits : Digits[d] = s[i]
DigitValue(c) == (CHOOSE d \in DOMAIN Digits : Digits[d] = c) - 1
RECURSIVE Natural(_)
Natural(s) ==
    IF Len(s) = 0 THEN 0
    ELSE 10 * Natural(SubSeq(s, 1, Len(s) - 1)) + DigitValue(s[Len(s)])
Parsable(s) ==
    IsDigits(s) \/ (Len(s) >= 2 /\ s[1] = "-" /\ IsDigits(Tail(s)))
int(s) == IF s[1] = "-" THEN 0 - Natural(Tail(s)) ELSE Natural(s)

Http == <<"h","t","t","p",":","/","/">>
MailtoPrefix == <<"m","a","i","l","t","o">>
BrokenSuffix == <<"-","B","R","O","K","E","N">>
top_link == <<"r","o","o","t">>

\* The parent of a seed frame (Python's None, falsy in "if parent_url:").
None == <<>>

(***************************************************************************)
(* The modelled web.  Every href is absolute, so urljoin returns it        *)
(* unchanged; one href carries a fragment.  Three addresses contain "s"    *)
(* (one only after lower()), one does not, all four contain "http".  One   *)
(* page is served at an address that ends in "-BROKEN": the address of     *)
(* another page followed by the tag of the BROKEN LINK branch.             *)
(***************************************************************************)
UrlS1 == Http \o <<"s","1">>
UrlS2 == Http \o <<"S","2">>
UrlX3 == Http \o <<"x","3">>
UrlS1Broken == UrlS1 \o BrokenSuffix
UrlMail == <<"m","a","i","l","t","o",":","m","e">>
UrlS1Frag == UrlS1 \o <<"#","f">>

\* the hrefs of the <a> tags of the page served at an address (the fragment
\* of the requested address is not part of the request)
PageHrefs(url) ==
    LET page == SplitHash(url)
    IN  IF page = UrlS1 THEN {UrlX3, UrlS2}
        ELSE IF page = UrlX3 THEN {UrlS2, UrlS1Frag}
        ELSE IF page = UrlS2 THEN {UrlS1Broken, UrlX3}
        ELSE IF page = UrlS1Broken THEN {UrlMail, UrlS1}
        ELSE {}

Addresses == {UrlS1, UrlS2, UrlX3, UrlS1Broken, UrlMail, UrlS1Frag}
SeedPool == {UrlS1, UrlS2, UrlS1Frag}
Anchors == {<<"s">>, <<"S">>, <<"h","t","t","p">>}

\* the values of -d: the literals of 0..MaxUserDepth and of -1, a text that
\* is no number, and None when the option is not given
DepthText(n) == <<Digits[n + 1]>>
DepthArgs ==
    {DepthText(n) : n \in 0..MaxUserDepth} \cup {<<"-","1">>, <<"x">>, None}

\* the messages the program prints without an address in them
UsageText == <<"U","S","A","G","E",":">>
ArgparseText == <<"u","s","a","g","e",":">>
TracebackText == <<"T","r","a","c","e","b","a","c","k">>

VARIABLES
    args,           \* the parsed command line; url is "missing" (no -u),
                    \* "empty" (-u "") or "list" (addresses, drawn in NextSeed)
    urls,           \* the seed addresses "for link in urls" has taken so far
    pc,             \* "usage" | "main" | "crawl" | "done" | "exit" | "crashed"
    exit_status,    \* <<>> while the program runs, then <<status>>
    printed,        \* the usage message, the traceback or the link tree
    visited_links,  \* set of addresses
    link_graph,     \* function: key -> sequence of child entries
    stack,          \* sequence of frames, top last
    log,            \* history: one record per frame that reached download_page
    pushed,         \* history: every child frame ever appended to the stack
    dropped,        \* history: every frame popped and discarded
    grammar_i,      \* crawl_web's parameter i, the number of the last finding
    grammar_numbers,\* the numbers of the "Grammar: {i}: ..." lines printed
    keep_order,     \* whether the history below is kept in this run
    iterated,       \* history: page -> the sequence in which "for link in
                    \* links" took the links of the page
    t_pc,           \* webpage-traverse.py on the same command line and web:
                    \* "idle" | "crawl" | "done" | "crashed"
    t_stack,        \* its stack,
    t_visited_links,\* its visited_links,
    t_link_graph    \* and its link_graph

\* the state of webpage-traverse.py
variant == <<t_pc, t_stack, t_visited_links, t_link_graph>>

vars == <<args, urls, pc, exit_status, printed, visited_links, link_graph, stack,
          log, pushed, dropped, grammar_i, grammar_numbers, keep_order, iterated, variant>>

Frame(u, p, d) == [url |-> u, parent |-> p, depth |-> d]

\* int(depth), computed once for every value of -d that is a number
DepthOf == [t \in {d \in DepthArgs : Parsable(d)} |-> int(t)]

\* depth=int(depth)+1
max_depth == DepthOf[args.depth] + 1

\* usage(): url, depth and anchor given and one of -b, -s, -w selected
ArgsOK(a) ==
    /\ a.url # "empty"
    /\ a.depth # None
    /\ a.anchor # None
    /\ (a.broken_links \/ a.spelling \/ a.write_files)

\* the state after the module level of webpage.py has run
Constructed ==
    /\ args \in [url : {"missing", "empty", "list"},
                 anchor : Anchors \cup {None}, depth : DepthArgs,
                 broken_links : BOOLEAN, spelling : BOOLEAN,
                 write_files : BOOLEAN, punctuation : BOOLEAN]
    /\ urls = <<>>
    /\ pc = "usage"
    /\ exit_status = <<>>
    /\ printed = <<>>
    /\ visited_links = {}
    /\ link_graph = [k \in {top_link} |-> <<>>]
    /\ stack = <<>>
    /\ log = <<>>
    /\ pushed = {}
    /\ dropped = {}
    /\ grammar_i = 0
    /\ grammar_numbers = <<>>
    /\ iterated = [k \in {} |-> <<>>]
    /\ t_pc = "idle"
    /\ t_stack = <<>>
    /\ t_visited_links = {}
    /\ t_link_graph = [k \in {} |-> <<>>]

Init == Constructed /\ keep_order = FALSE

\* the same program, with the iteration order of every page kept as history
OrderInit == Constructed /\ keep_order = TRUE

(***************************************************************************)
(* Pure parts of crawl_web.                                                *)
(***************************************************************************)
\* anchor in url.lower(), computed once for every anchor and address
InScopeOf == [a \in Anchors |-> {u \in Addresses : Contains(a, Lower(u))}]
InScope(url) == url \in InScopeOf[args.anchor]

\* current_url.lower().startswith("mailto"), computed once for every address
Mailtos == {u \in Addresses : StartsWith(Lower(u), MailtoPrefix)}
IsMailto(url) == url \in Mailtos

\* download_page: requests.get raises InvalidSchema (a RequestException) for
\* an address with no http(s) scheme, so it returns None for a mailto address.
CanDownload(url) == ~IsMailto(url)

\* mutant: the visited check is missing from the loop's condition
ShouldVisit_IgnoresVisited(f) == f.depth <= max_depth

\* if current_url not in visited_links and depth <= max_depth
ShouldVisit(f) == f.url \notin visited_links /\ f.depth <= max_depth

\* mutant: a downloaded page is not marked visited
VisitedAfterSuccess_Forgets(url) == visited_links

\* visited_links.add(current_url) after a successful download
VisitedAfterSuccess(url) == visited_links \cup {url}

\* mutant: the BROKEN LINK branch forgets to mark the address visited
VisitedAfterFailure_Forgets(url) == visited_links

\* visited_links.add(current_url) in the BROKEN LINK branch
VisitedAfterFailure(url) == visited_links \cup {url}

\* links.add(urljoin(base_url, href).split('#')[0]) for each href
extract_links(hrefs) == {SplitHash(h) : h \in hrefs}

\* the orders in which "for link in links" may iterate over a set
Orders(S) == {s \in [1..Cardinality(S) -> S] :
                 \A i, j \in 1..Cardinality(S) : i # j => s[i] # s[j]}

\* link_graph[parent_url].append(entry), creating the key when missing
AppendChild(g, parent, entry) ==
    [k \in DOMAIN g \cup {parent} |->
        IF k = parent
        THEN Append(IF k \in DOMAIN g THEN g[k] ELSE <<>>, entry)
        ELSE g[k]]

\* mutant: a seed frame is recorded again, as a child of the root marker
RecordEdge_SeedUnderRoot(g, f) ==
    AppendChild(g, IF f.parent # None THEN f.parent ELSE top_link, f.url)

\* if parent_url: ... link_graph[parent_url].append(current_url)
RecordEdge(g, f) ==
    IF f.parent # None THEN AppendChild(g, f.parent, f.url) ELSE g

\* mutant: every failed address is tagged, whatever the -b flag says
FailedEntry_AlwaysTagged(url) ==
    IF IsMailto(url) THEN url ELSE url \o BrokenSuffix

\* mutant: the mailto case is missing
FailedEntry_NoMailtoCase(url) ==
    IF args.broken_links THEN url \o BrokenSuffix ELSE url

\* the entry stored for a failed download
FailedEntry(url) ==
    IF IsMailto(url) THEN url
    ELSE IF args.broken_links THEN url \o BrokenSuffix ELSE url

\* mutant: the BROKEN LINK branch records no edge
RecordFailure_NoEdge(g, f) == g

\* BROKEN LINK branch
RecordFailure(g, f) ==
    IF f.parent # None THEN AppendChild(g, f.parent, FailedEntry(f.url)) ELSE g

\* mutant: the gate tests the current address instead of the parent's
ExpandGate_OwnAddress(f) == IF f.parent # None THEN InScope(f.url) ELSE TRUE

\* whether the links of the current page are appended to the stack
ExpandGate(f) == IF f.parent # None THEN InScope(f.parent) ELSE TRUE

\* mutant: the links are appended from the last one to the first
Children_Reversed(order, f) ==
    [k \in 1..Len(order) |->
        Frame(order[Len(order) + 1 - k], f.url, f.depth + 1)]

\* stack.append((link, current_url, depth + 1)) for link in links
Children(order, f) ==
    [i \in 1..Len(order) |-> Frame(order[i], f.url, f.depth + 1)]

Top == stack[Len(stack)]
Rest == SubSeq(stack, 1, Len(stack) - 1)

Range(s) == {s[i] : i \in 1..Len(s)}

\* which analyzers crawl_web calls on a downloaded page
Archives(f) == args.write_files /\ InScope(f.url)
Spells(f) == args.spelling /\ InScope(f.url)
Punctuates(f) == args.punctuation

\* the number of matches of punctuation.check on the text of a page that
\* pass the test "spelling" not in mistake
Mistakes(url) ==
    LET page == SplitHash(url)
    IN  IF page = UrlS1 THEN 1
        ELSE IF page = UrlS2 THEN 2
        ELSE IF page = UrlS1Broken THEN 1
        ELSE 0

\* for mistake in matches: i+=1; print(f"Grammar: {i}: {mistake}")
Numbered(n, count) == [k \in 1..count |-> n + k]

\* if punctuation: ... the numbered findings of the page
CheckPunctuation(f) ==
    IF Punctuates(f)
    THEN /\ grammar_i' = grammar_i + Mistakes(f.url)
         /\ grammar_numbers' = grammar_numbers \o Numbered(grammar_i, Mistakes(f.url))
    ELSE UNCHANGED <<grammar_i, grammar_numbers>>

\* history: the order in which the links of a page were taken
Iterated(url, order) ==
    [k \in DOMAIN iterated \cup {url} |-> IF k = url THEN order ELSE iterated[k]]

\* what one call of download_page and the code after it did; raised names
\* the call that raised an exception ("none" when none did)
Entry(f, ok, wrote, spelled, grammar, extracted, links, raised) ==
    [url |-> f.url, parent |-> f.parent, depth |-> f.depth, ok |-> ok,
     seen |-> f.url \in visited_links,
     wrote |-> wrote, spelled |-> spelled, grammar |-> grammar,
     extracted |-> extracted, links |-> links, raised |-> raised]

(***************************************************************************)
(* What the program prints.                                                *)
(***************************************************************************)
Stdout(text) == [stream |-> "stdout", text |-> text]
Stderr(text) == [stream |-> "stderr", text |-> text]

TreeHeader == <<"L","i","n","k"," ","T","r","e","e">>
TreeMarker == <<"|","-","-"," ">>

\* "  " * level
Spaces(level) == [i \in 1..(2 * level) |-> " "]

\* mutant: the children of the node are printed, the recursive call is missing
print_link_tree_Flat(g, node, level) ==
    IF node \in DOMAIN g
    THEN [i \in 1..Len(g[node]) |-> Stdout(Spaces(level) \o TreeMarker \o g[node][i])]
    ELSE <<>>

\* print_link_tree: the lines it prints, in order
RECURSIVE print_link_tree(_, _, _)
RECURSIVE PrintChildren(_, _, _, _)
print_link_tree(g, node, level) ==
    IF node \in DOMAIN g THEN PrintChildren(g, node, level, 1) ELSE <<>>

\* for child in link_graph[node], from the i-th child on
PrintChildren(g, node, level, i) ==
    IF i > Len(g[node]) THEN <<>>
    ELSE <<Stdout(Spaces(level) \o TreeMarker \o g[node][i])>>
            \o print_link_tree(g, g[node][i], level + 1)
            \o PrintChildren(g, node, level, i + 1)

\* whether the recursion of print_link_tree can go n calls deep from a node
RECURSIVE Deep(_, _, _)
Deep(g, node, n) ==
    IF n = 0 THEN TRUE
    ELSE node \in DOMAIN g /\ \E i \in 1..Len(g[node]) : Deep(g, g[node][i], n - 1)

\* The recursion ends unless it comes back to a key it is already printing,
\* that is, unless it can go deeper than there are keys; when it does not
\* end, Python raises RecursionError.
WalkEnds(g) == ~Deep(g, top_link, Cardinality(DOMAIN g) + 1)

(***************************************************************************)
(* usage() and the first lines of __main__.                                *)
(***************************************************************************)
\* parser.parse_args(): -u is required
ParseArgsExits ==
    /\ pc = "usage"
    /\ args.url = "missing"
    /\ pc' = "exit"
    /\ exit_status' = <<2>>
    /\ printed' = <<Stderr(ArgparseText)>>
    /\ UNCHANGED <<args, urls, visited_links, link_graph, stack, log, pushed, dropped>>
    /\ UNCHANGED <<grammar_i, grammar_numbers, keep_order, iterated, variant>>

\* if not url or not depth or not anchor or not any([...]): print, exit(-1)
UsageExits ==
    /\ pc = "usage"
    /\ args.url # "missing"
    /\ ~ArgsOK(args)
    /\ pc' = "exit"
    /\ exit_status' = <<(0 - 1) % 256>>
    /\ printed' = <<Stdout(UsageText)>>
    /\ UNCHANGED <<args, urls, visited_links, link_graph, stack, log, pushed, dropped>>
    /\ UNCHANGED <<grammar_i, grammar_numbers, keep_order, iterated, variant>>

\* depth=int(depth)+1 raises ValueError
DepthRaises ==
    /\ pc = "usage"
    /\ args.url # "missing"
    /\ ArgsOK(args)
    /\ ~Parsable(args.depth)
    /\ pc' = "crashed"
    /\ exit_status' = <<1>>
    /\ printed' = <<Stderr(TracebackText)>>
    /\ UNCHANGED <<args, urls, visited_links, link_graph, stack, log, pushed, dropped>>
    /\ UNCHANGED <<grammar_i, grammar_numbers, keep_order, iterated, variant>>

\* the command line is accepted
Start ==
    /\ pc = "usage"
    /\ args.url # "missing"
    /\ ArgsOK(args)
    /\ Parsable(args.depth)
    /\ pc' = "main"
    /\ UNCHANGED <<args, urls, exit_status, printed, visited_links, link_graph, stack,
                   log, pushed, dropped>>
    /\ UNCHANGED <<grammar_i, grammar_numbers, keep_order, iterated, variant>>

(***************************************************************************)
(* __main__: for link in urls                                              *)
(***************************************************************************)
\* mutant: crawl_web is called after the for loop instead of inside it, so
\* every seed frame is pushed before the first one is popped
NextSeed_PushAll ==
    /\ pc = "main"
    /\ Len(urls) < MaxSeeds
    /\ \E link \in SeedPool :
          /\ urls' = Append(urls, link)
          /\ link_graph' = AppendChild(link_graph, top_link, link)
          /\ stack' = Append(stack, Frame(link, None, 0))
    /\ pc' \in {"main", "crawl"}
    /\ UNCHANGED <<args, exit_status, printed, visited_links, log, pushed, dropped>>
    /\ grammar_i' = 0
    /\ UNCHANGED <<grammar_numbers, keep_order, iterated, variant>>

\* The loop body never looks at a seed it has not taken yet, so the command
\* line's list (urls = url.split(), none to MaxSeeds addresses) is drawn one
\* seed at a time.
NextSeed ==
    /\ pc = "main"
    /\ Len(urls) < MaxSeeds
    /\ \E link \in SeedPool :
          /\ urls' = Append(urls, link)
          /\ link_graph' = AppendChild(link_graph, top_link, link)
          /\ stack' = Append(stack, Frame(link, None, 0))
    /\ pc' = "crawl"
    /\ UNCHANGED <<args, exit_status, printed, visited_links, log, pushed, dropped>>
    /\ grammar_i' = 0
    /\ UNCHANGED <<grammar_numbers, keep_order, iterated, variant>>

\* the list is exhausted (it is empty when -u holds blanks only): the
\* header, print_link_tree and the end of the program
Finish ==
    /\ pc = "main"
    /\ IF WalkEnds(link_graph)
       THEN /\ pc' = "done"
            /\ exit_status' = <<0>>
            /\ printed' = printed \o <<Stdout(TreeHeader)>>
                              \o print_link_tree(link_graph, top_link, 0)
       ELSE /\ pc' = "crashed"
            /\ exit_status' = <<1>>
            /\ printed' = printed \o <<Stdout(TreeHeader), Stderr(TracebackText)>>
    /\ UNCHANGED <<args, urls, visited_links, link_graph, stack, log, pushed, dropped>>
    /\ UNCHANGED <<grammar_i, grammar_numbers, keep_order, iterated, variant>>

(***************************************************************************)
(* crawl_web: one iteration of "while stack", by outcome.                  *)
(***************************************************************************)
\* mutant: the address is marked visited before the guard is evaluated
Discard_MarksVisited ==
    /\ pc = "crawl"
    /\ stack # <<>>
    /\ ~ShouldVisit(Top)
    /\ stack' = Rest
    /\ visited_links' = visited_links \cup {Top.url}
    /\ dropped' = dropped \cup {Top}
    /\ UNCHANGED <<args, urls, pc, exit_status, printed, link_graph, log, pushed>>
    /\ UNCHANGED <<grammar_i, grammar_numbers, keep_order, iterated, variant>>

\* the popped frame is visited already or too deep
Discard ==
    /\ pc = "crawl"
    /\ stack # <<>>
    /\ ~ShouldVisit(Top)
    /\ stack' = Rest
    /\ dropped' = dropped \cup {Top}
    /\ UNCHANGED <<args, urls, pc, exit_status, printed, visited_links, link_graph,
                   log, pushed>>
    /\ UNCHANGED <<grammar_i, grammar_numbers, keep_order, iterated, variant>>

\* download_page returned None
DownloadFails ==
    /\ pc = "crawl"
    /\ stack # <<>>
    /\ ShouldVisit(Top)
    /\ visited_links' = VisitedAfterFailure(Top.url)
    /\ link_graph' = RecordFailure(link_graph, Top)
    /\ stack' = Rest
    /\ log' = Append(log, Entry(Top, FALSE, FALSE, FALSE, FALSE, FALSE, {}, "none"))
    /\ UNCHANGED <<args, urls, pc, exit_status, printed, pushed, dropped>>
    /\ UNCHANGED <<grammar_i, grammar_numbers, keep_order, iterated, variant>>

\* open() or file.write() raises: nothing catches it
WriteRaises ==
    /\ pc = "crawl"
    /\ stack # <<>>
    /\ ShouldVisit(Top)
    /\ CanDownload(Top.url)
    /\ Archives(Top)
    /\ visited_links' = VisitedAfterSuccess(Top.url)
    /\ stack' = Rest
    /\ log' = Append(log, Entry(Top, TRUE, TRUE, FALSE, FALSE, FALSE, {}, "write"))
    /\ pc' = "crashed"
    /\ exit_status' = <<1>>
    /\ printed' = Append(printed, Stderr(TracebackText))
    /\ UNCHANGED <<args, urls, link_graph, pushed, dropped>>
    /\ UNCHANGED <<grammar_i, grammar_numbers, keep_order, iterated, variant>>

\* spell_check_html_xml reaches "word.lower() not in ok_words": ok_words is
\* not defined in webpage.py, so a page with a checkable word raises NameError
SpellingRaises ==
    /\ pc = "crawl"
    /\ stack # <<>>
    /\ ShouldVisit(Top)
    /\ CanDownload(Top.url)
    /\ Spells(Top)
    /\ visited_links' = VisitedAfterSuccess(Top.url)
    /\ stack' = Rest
    /\ log' = Append(log, Entry(Top, TRUE, Archives(Top), TRUE, FALSE, FALSE, {},
                               "spelling"))
    /\ pc' = "crashed"
    /\ exit_status' = <<1>>
    /\ printed' = Append(printed, Stderr(TracebackText))
    /\ UNCHANGED <<args, urls, link_graph, pushed, dropped>>
    /\ UNCHANGED <<grammar_i, grammar_numbers, keep_order, iterated, variant>>

\* punctuation.check raises
PunctuationRaises ==
    /\ pc = "crawl"
    /\ stack # <<>>
    /\ ShouldVisit(Top)
    /\ CanDownload(Top.url)
    /\ Punctuates(Top)
    /\ visited_links' = VisitedAfterSuccess(Top.url)
    /\ stack' = Rest
    /\ log' = Append(log, Entry(Top, TRUE, Archives(Top), Spells(Top), TRUE, FALSE,
                               {}, "punctuation"))
    /\ pc' = "crashed"
    /\ exit_status' = <<1>>
    /\ printed' = Append(printed, Stderr(TracebackText))
    /\ UNCHANGED <<args, urls, link_graph, pushed, dropped>>
    /\ UNCHANGED <<grammar_i, grammar_numbers, keep_order, iterated, variant>>

\* extract_links raises: urljoin rejects an href of the page (ValueError for
\* an unbalanced "[" in its host) and nothing catches it
ExtractRaises ==
    /\ pc = "crawl"
    /\ stack # <<>>
    /\ ShouldVisit(Top)
    /\ CanDownload(Top.url)
    /\ visited_links' = VisitedAfterSuccess(Top.url)
    /\ stack' = Rest
    /\ log' = Append(log, Entry(Top, TRUE, Archives(Top), Spells(Top), Punctuates(Top),
                               FALSE, {}, "extract"))
    /\ pc' = "crashed"
    /\ exit_status' = <<1>>
    /\ printed' = Append(printed, Stderr(TracebackText))
    /\ UNCHANGED <<args, urls, link_graph, pushed, dropped>>
    /\ CheckPunctuation(Top)
    /\ UNCHANGED <<keep_order, iterated, variant>>

\* the page is downloaded, analysed and its links extracted
VisitPage ==
    /\ pc = "crawl"
    /\ stack # <<>>
    /\ ShouldVisit(Top)
    /\ CanDownload(Top.url)
    /\ \E order \in Orders(extract_links(PageHrefs(Top.url))) :
          LET f == Top
              kids == IF ExpandGate(f) THEN Children(order, f) ELSE <<>>
          IN  /\ visited_links' = VisitedAfterSuccess(f.url)
              /\ link_graph' = RecordEdge(link_graph, f)
              /\ stack' = Rest \o kids
              /\ pushed' = pushed \cup Range(kids)
              /\ log' = Append(log, Entry(f, TRUE, Archives(f), Spells(f),
                                          Punctuates(f), TRUE, Range(order),
                                          "none"))
              /\ CheckPunctuation(f)
              /\ iterated' = IF keep_order THEN Iterated(f.url, order)
                                           ELSE iterated
    /\ UNCHANGED <<args, urls, pc, exit_status, printed, dropped, keep_order,
                   variant>>

\* "while stack" ends: return link_graph
Return ==
    /\ pc = "crawl"
    /\ stack = <<>>
    /\ pc' = "main"
    /\ UNCHANGED <<args, urls, exit_status, printed, visited_links, link_graph, stack,
                   log, pushed, dropped>>
    /\ UNCHANGED <<grammar_i, grammar_numbers, keep_order, iterated, variant>>

Next ==
    \/ ParseArgsExits
    \/ UsageExits
    \/ DepthRaises
    \/ Start
    \/ NextSeed
    \/ Discard
    \/ DownloadFails
    \/ WriteRaises
    \/ SpellingRaises
    \/ PunctuationRaises
    \/ ExtractRaises
    \/ VisitPage
    \/ Return
    \/ Finish

Spec == Init /\ [][Next]_vars

\* the interpreter runs the program to its end
FairSpec == Spec /\ WF_vars(Next)

\* the program with the iteration order of every expanded page as history
OrderSpec == OrderInit /\ [][Next]_vars

(***************************************************************************)
(* Vocabulary of the properties.                                           *)
(***************************************************************************)
LogIndexes == 1..Len(log)

\* the calls of download_page on address u
Fetches(u) == {i \in LogIndexes : log[i].url = u}

\* the call of download_page made for frame f, if any
FetchedAs(f) ==
    \E i \in LogIndexes :
        log[i].url = f.url /\ log[i].parent = f.parent /\ log[i].depth = f.depth

\* link_graph holds child entry e under key p
HasEntry(p, e) ==
    p \in DOMAIN link_graph /\ \E i \in 1..Len(link_graph[p]) : link_graph[p][i] = e

\* the number of entries e under key p
EntryCount(p, e) ==
    IF p \in DOMAIN link_graph
    THEN Cardinality({i \in 1..Len(link_graph[p]) : link_graph[p][i] = e})
    ELSE 0

\* an edge p -> u, plain or broken-tagged
HasEdge(p, u) == HasEntry(p, u) \/ HasEntry(p, u \o BrokenSuffix)

\* the frames pushed while u was expanded
ChildrenOf(u) == {f \in pushed : f.parent = u}

\* every address of the run
Touched == {urls[i] : i \in 1..Len(urls)} \cup {f.url : f \in pushed}

(***************************************************************************)
(* C1  Depth bound: every frame whose address is fetched has a depth of at *)
(* most the hop count given on the command line; a deeper frame is         *)
(* discarded without a fetch.                                              *)
(***************************************************************************)
C1_DepthBound == \A i \in LogIndexes : log[i].depth <= int(args.depth)

(***************************************************************************)
(* C2  At-most-once visitation: no address is fetched twice in a run,      *)
(* whether its fetch succeeded or failed; a fetch is made only for an      *)
(* address that is not in visited_links, and marks it visited.             *)
(***************************************************************************)
C2_AtMostOnce ==
    /\ \A i, j \in LogIndexes : log[i].url = log[j].url => i = j
    /\ \A i \in LogIndexes : ~log[i].seen /\ log[i].url \in visited_links

\* an address whose fetch failed was discovered again and dropped unfetched
C2_Witness ==
    \E f \in dropped : \E i \in LogIndexes :
        /\ f.depth <= max_depth
        /\ log[i].url = f.url
        /\ ~log[i].ok
        /\ Cardinality(Fetches(f.url)) = 1

(***************************************************************************)
(* C3  Edge completeness, as claimed: after the traversal every frame ever *)
(* pushed as a child has an edge from its parent in the link graph.        *)
(***************************************************************************)
C3_EdgeCompleteness ==
    pc = "done" => \A f \in pushed : HasEdge(f.parent, f.url)

(***************************************************************************)
(* C3  amended: after the traversal a child frame has an edge from its     *)
(* parent exactly when it was the frame that reached the download (popped  *)
(* while its address was unvisited and its depth within the limit),        *)
(* whether or not the fetch succeeded or the address was expanded; a frame *)
(* discarded as visited or too deep leaves no edge.                        *)
(***************************************************************************)
C3_ProcessedEdge ==
    pc = "done" => \A f \in pushed : HasEdge(f.parent, f.url) <=> FetchedAs(f)

\* a finished run with an edge to a failed, unexpanded child and with a
\* child frame that was dropped
C3_Witness ==
    /\ pc = "done"
    /\ \E f \in pushed : \E i \in LogIndexes :
          log[i].url = f.url /\ log[i].parent = f.parent /\ ~log[i].ok
    /\ \E f \in pushed : f \in dropped /\ ~FetchedAs(f)

(***************************************************************************)
(* C4  Duplicate discovery, as claimed: if the same address u is pushed as *)
(* a child by two different parents p1 and p2 before u is processed, then  *)
(* after the run both edges p1 -> u and p2 -> u are in the graph and u was *)
(* fetched exactly once.                                                   *)
(***************************************************************************)
\* the first call of download_page on u (0 when there is none)
LogIndex(u) ==
    IF Fetches(u) = {} THEN 0
    ELSE CHOOSE i \in Fetches(u) : \A j \in Fetches(u) : i <= j

\* frames f1 and f2 carry the same address for two different parents and
\* were both pushed before that address was processed
DupBefore(f1, f2) ==
    /\ f1.url = f2.url
    /\ f1.parent # f2.parent
    /\ LogIndex(f1.parent) > 0
    /\ LogIndex(f2.parent) > 0
    /\ LogIndex(f1.url) > LogIndex(f1.parent)
    /\ LogIndex(f1.url) > LogIndex(f2.parent)

C4_TwoEdges ==
    pc = "done" =>
        \A f1, f2 \in pushed :
            DupBefore(f1, f2) =>
                /\ HasEdge(f1.parent, f1.url)
                /\ HasEdge(f2.parent, f1.url)
                /\ Cardinality(Fetches(f1.url)) = 1

(***************************************************************************)
(* C4  amended: if the same address u is pushed as a child by two          *)
(* different parents p1 and p2 before u is processed, then after the run   *)
(* the graph holds at most one of the edges p1 -> u and p2 -> u, namely    *)
(* the one from the parent of the frame of u that was fetched; u was       *)
(* fetched exactly once and only that frame expanded u.                    *)
(***************************************************************************)
C4_OneEdge ==
    pc = "done" =>
        \A f1, f2 \in pushed :
            DupBefore(f1, f2) =>
                LET u == f1.url
                    e == log[LogIndex(u)]
                IN  /\ ~(HasEdge(f1.parent, u) /\ HasEdge(f2.parent, u))
                    /\ Cardinality(Fetches(u)) = 1
                    /\ HasEdge(f1.parent, u) <=> e.parent = f1.parent
                    /\ HasEdge(f2.parent, u) <=> e.parent = f2.parent
                    /\ \A f \in ChildrenOf(u) : f.depth = e.depth + 1

\* a finished run in which u was pushed by two parents before it was
\* processed, was expanded, and has an edge from one of them only
C4_Witness ==
    /\ pc = "done"
    /\ \E f1, f2 \in pushed :
          /\ DupBefore(f1, f2)
          /\ HasEdge(f1.parent, f1.url)
          /\ ~HasEdge(f2.parent, f1.url)
          /\ ChildrenOf(f1.url) # {}

(***************************************************************************)
(* C5  Scope gate for expansion: the links extracted from a fetched page   *)
(* are pushed as frames (v, u, d+1) if and only if the frame is a seed     *)
(* frame or the lowercased address of its parent contains the anchor; a    *)
(* non-seed node whose parent is out of scope has no child pushed.         *)
(***************************************************************************)
C5_ScopeGate ==
    /\ \A i \in LogIndexes :
          log[i].ok =>
              \A v \in log[i].links :
                  Frame(v, log[i].url, log[i].depth + 1) \in pushed
                      <=> (log[i].parent = None
                           \/ InScope(log[i].parent))
    /\ \A f \in pushed : \E i \in LogIndexes :
          /\ log[i].url = f.parent
          /\ log[i].ok
          /\ f.url \in log[i].links
          /\ f.depth = log[i].depth + 1
          /\ (log[i].parent = None \/ InScope(log[i].parent))

\* a fetched non-seed page that is itself in scope and has links, none of
\* which was pushed because its parent is out of scope
C5_Witness ==
    \E i \in LogIndexes :
        /\ log[i].ok
        /\ log[i].parent # None
        /\ ~InScope(log[i].parent)
        /\ InScope(log[i].url)
        /\ log[i].links # {}
        /\ ChildrenOf(log[i].url) = {}

(***************************************************************************)
(* C6  Fetch failure is data: when the fetch of a non-seed frame (u, p, d) *)
(* fails and u is no mailto address, u is marked visited, exactly one edge *)
(* p -> u is recorded (tagged when -b is set, plain when it is not), no    *)
(* frame with parent u is pushed, and the run goes on: it is not stopped   *)
(* by the failure and ends with every frame popped.                        *)
(***************************************************************************)
\* this step is a call of download_page that returned None
FailureStep == Len(log') = Len(log) + 1 /\ ~log'[Len(log')].ok

FailureRecorded ==
    \A i \in LogIndexes :
        (~log[i].ok /\ log[i].parent # None /\ ~IsMailto(log[i].url)) =>
            LET u == log[i].url
                p == log[i].parent
            IN  /\ u \in visited_links
                /\ EntryCount(p, u) + EntryCount(p, u \o BrokenSuffix) = 1
                /\ HasEntry(p, u \o BrokenSuffix) <=> args.broken_links
                /\ ChildrenOf(u) = {}

C6_FailureIsData ==
    /\ [](FailureRecorded /\ (pc = "done" => stack = <<>>))
    /\ [][FailureStep => (pc' = "crawl" /\ stack' = Rest /\ pushed' = pushed)]_vars

\* a finished run in which a non-seed fetch failed without -b and a frame
\* that was below it on the stack was fetched afterwards
C6_Witness ==
    /\ pc = "done"
    /\ ~args.broken_links
    /\ \E i, j \in LogIndexes :
          /\ ~log[i].ok
          /\ log[i].parent # None
          /\ ~IsMailto(log[i].url)
          /\ i < j
          /\ log[j].depth <= log[i].depth

(***************************************************************************)
(* C7  Mail-contact addresses, as claimed: for every mailto address u      *)
(* pushed as a child of p, after the run the edge p -> u is recorded       *)
(* without the broken tag and no frame with parent u was ever created.     *)
(***************************************************************************)
C7_MailtoEdge ==
    pc = "done" =>
        \A f \in pushed :
            IsMailto(f.url) =>
                /\ HasEntry(f.parent, f.url)
                /\ ~HasEntry(f.parent, f.url \o BrokenSuffix)
                /\ ChildrenOf(f.url) = {}

(***************************************************************************)
(* C7  amended: for every mailto address u pushed as a child of p, the     *)
(* edge p -> u is never recorded with the broken tag, whatever the -b flag *)
(* says, its fetch never succeeds and no frame with parent u is ever       *)
(* created; after the run the plain edge p -> u is recorded exactly when   *)
(* the frame reached the download, and a mailto frame discarded as visited *)
(* or too deep leaves no edge.                                             *)
(***************************************************************************)
C7_MailtoPlain ==
    \A f \in pushed :
        IsMailto(f.url) =>
            /\ ~HasEntry(f.parent, f.url \o BrokenSuffix)
            /\ ChildrenOf(f.url) = {}
            /\ \A i \in Fetches(f.url) : ~log[i].ok
            /\ pc = "done" => (HasEntry(f.parent, f.url) <=> FetchedAs(f))

\* a finished run with -b set and a plain edge to a mailto child
C7_Witness ==
    /\ pc = "done"
    /\ args.broken_links
    /\ \E f \in pushed :
          IsMailto(f.url) /\ FetchedAs(f) /\ HasEntry(f.parent, f.url)

(***************************************************************************)
(* C8  Termination: for every accepted command line with a depth >= 0 the  *)
(* traversal eventually reaches an empty stack and the program the end of  *)
(* __main__ with the link graph.                                           *)
(***************************************************************************)
C8_Terminates ==
    (pc = "main" /\ int(args.depth) >= 0) ~> (pc = "done" /\ stack = <<>>)

(***************************************************************************)
(* C9  Bounded-hop discovery is complete: when every address is in scope   *)
(* and every fetch succeeds, every address within -d >= 0 references of    *)
(* a seed is fetched and is in the final link graph.                       *)
(***************************************************************************)
\* the addresses a page references
LinksOf(u) == extract_links(PageHrefs(u))

RECURSIVE Within(_)
Within(k) ==
    IF k <= 0 THEN {urls[i] : i \in 1..Len(urls)}
    ELSE Within(k - 1) \cup UNION {LinksOf(u) : u \in Within(k - 1)}

InGraph(u) == \E p \in DOMAIN link_graph : HasEdge(p, u)

C9_Complete ==
    (/\ pc = "done"
     /\ int(args.depth) >= 0
     /\ \A i \in LogIndexes : log[i].ok
     /\ \A u \in Touched \cup Within(int(args.depth)) : InScope(u))
        => \A u \in Within(int(args.depth)) : Fetches(u) # {} /\ InGraph(u)

(***************************************************************************)
(* C10  Analyzer gating: spelling analysis and archiving run only on a     *)
(* fetched page whose own lowercased address contains the anchor; grammar  *)
(* analysis, when enabled, runs on every successfully fetched page; no     *)
(* analyzer runs on a page whose fetch failed.                             *)
(***************************************************************************)
C10_AnalyzerGating ==
    \A i \in LogIndexes :
        /\ log[i].spelled =>
              log[i].ok /\ args.spelling /\ InScope(log[i].url)
        /\ log[i].wrote =>
              log[i].ok /\ args.write_files /\ InScope(log[i].url)
        /\ log[i].grammar => log[i].ok /\ args.punctuation
        /\ (log[i].ok /\ args.punctuation) => log[i].grammar

(***************************************************************************)
(* C11  Analyzer and archive failures are non-fatal: when the archive      *)
(* write, the spelling analyzer or the grammar analyzer raises on a page,  *)
(* the program does not end there: the page's edge is recorded, its links  *)
(* are pushed subject to the scope gate and the loop goes on.              *)
(***************************************************************************)
AnalyzerRaised(e) == e.raised \in {"write", "spelling", "punctuation"}

C11_AnalyzerNonFatal ==
    \A i \in LogIndexes :
        AnalyzerRaised(log[i]) =>
            /\ pc # "crashed"
            /\ log[i].parent # None => HasEntry(log[i].parent, log[i].url)
            /\ (log[i].parent = None \/ InScope(log[i].parent)) =>
                   \A v \in LinksOf(log[i].url) :
                       Frame(v, log[i].url, log[i].depth + 1) \in pushed

(***************************************************************************)
(* C12  Extractor failure is recoverable: when extract_links raises on a   *)
(* downloaded page u, u stays visited, its edge p -> u is recorded, no     *)
(* child of u is pushed and the loop goes on with the remaining frames.    *)
(***************************************************************************)
C12_ExtractorRecoverable ==
    \A i \in LogIndexes :
        log[i].raised = "extract" =>
            /\ log[i].url \in visited_links
            /\ log[i].parent # None => HasEntry(log[i].parent, log[i].url)
            /\ ChildrenOf(log[i].url) = {}
            /\ pc # "crashed"

(***************************************************************************)
(* C13  Configuration validation precedes all fetching: when the seed, the *)
(* anchor or the depth is missing, the depth is no number, or none of -b,  *)
(* -s, -w is selected, the program ends at once with a non-zero status and *)
(* a usage message on the error stream, and never fetches an address.      *)
(***************************************************************************)
ConfigInvalid(a) ==
    \/ a.url \in {"missing", "empty"}
    \/ a.anchor = None
    \/ a.depth = None
    \/ ~Parsable(a.depth)
    \/ ~(a.broken_links \/ a.spelling \/ a.write_files)

UsageOnStderr ==
    \E k \in 1..Len(printed) :
        printed[k].stream = "stderr" /\ printed[k].text \in {UsageText, ArgparseText}

C13_ValidationFirst ==
    ConfigInvalid(args) =>
        /\ log = <<>>
        /\ pc # "usage" =>
              /\ pc \in {"exit", "crashed"}
              /\ exit_status # <<>> /\ exit_status[1] # 0
              /\ UsageOnStderr

(***************************************************************************)
(* C14  A negative maxDepth is a caller error: a run whose -d is a         *)
(* negative number fetches no address (every run that fetches has a depth  *)
(* >= 0).                                                                  *)
(***************************************************************************)
C14_NegativeDepthRejected ==
    log # <<>> => int(args.depth) >= 0

(***************************************************************************)
(* C15  Scope comparison is case-insensitive: for every frame that reached *)
(* the download, an anchor that differs from the run's anchor only in      *)
(* letter case gives the same expansion decision (on the parent's address) *)
(* and the same analyzer-gating decision (on the page's own address).      *)
(***************************************************************************)
SameButCase(a, b) == Lower(a) = Lower(b)

C15_CaseInsensitive ==
    \A i \in LogIndexes : \A a \in Anchors :
        SameButCase(a, args.anchor) =>
            /\ log[i].parent # None =>
                  (log[i].parent \in InScopeOf[a] <=> InScope(log[i].parent))
            /\ log[i].url \in InScopeOf[a] <=> InScope(log[i].url)

(***************************************************************************)
(* C16  Fragment normalization: no address with a fragment is stored in    *)
(* visited_links or in the link graph or fetched, seed addresses included, *)
(* and two addresses that differ only by fragment are fetched at most once *)
(* between them.                                                           *)
(***************************************************************************)
NoFragment(u) == SplitHash(u) = u

C16_NoFragments ==
    /\ \A u \in visited_links : NoFragment(u)
    /\ \A i \in LogIndexes : NoFragment(log[i].url)
    /\ \A p \in DOMAIN link_graph :
          NoFragment(p) /\ \A k \in 1..Len(link_graph[p]) : NoFragment(link_graph[p][k])
    /\ \A i, j \in LogIndexes :
          SplitHash(log[i].url) = SplitHash(log[j].url) => i = j

(***************************************************************************)
(* C17  Root edges: the root marker maps to exactly the seed list in input *)
(* order, each seed recorded once, when it is taken from the list and      *)
(* before its frame is processed; the step that processes a seed frame     *)
(* (fetched, failed or discarded) leaves the link graph as it is.          *)
(***************************************************************************)
SeedFrameStep == pc = "crawl" /\ stack # <<>> /\ Top.parent = None /\ stack' # stack

C17_RootEdges ==
    /\ [](link_graph[top_link] = urls)
    /\ [][SeedFrameStep => link_graph' = link_graph]_vars

\* a finished run of two seeds: the frame of one was fetched and the frame
\* of the other, already visited as a reference of the first, was discarded
C17_Witness ==
    /\ pc = "done"
    /\ Len(urls) = 2
    /\ \E i \in LogIndexes : log[i].parent = None /\ log[i].ok
    /\ \E f \in dropped :
          f.parent = None /\ \E p \in DOMAIN link_graph : p # top_link /\ HasEdge(p, f.url)

(***************************************************************************)
(* Reading the printed tree back: the lines after the header.              *)
(***************************************************************************)
Rendered == SubSeq(printed, 2, Len(printed))

\* the number of blanks a line starts with
Indent(text) ==
    CHOOSE n \in 0..Len(text) :
        /\ \A i \in 1..n : text[i] = " "
        /\ n = Len(text) \/ text[n + 1] # " "

\* the walk depth each of the first j lines shows by its indentation
RECURSIVE LevelsOf(_, _)
LevelsOf(lines, j) ==
    IF j = 0 THEN <<>>
    ELSE Append(LevelsOf(lines, j - 1), Indent(lines[j].text) \div 2)

LineLevels == LevelsOf(Rendered, Len(Rendered))

\* the entry each of the first j lines shows after the marker
RECURSIVE ChildrenOfLines(_, _)
ChildrenOfLines(lines, j) ==
    IF j = 0 THEN <<>>
    ELSE Append(ChildrenOfLines(lines, j - 1),
                SubSeq(lines[j].text, Indent(lines[j].text) + Len(TreeMarker) + 1,
                       Len(lines[j].text)))

LineChildren == ChildrenOfLines(Rendered, Len(Rendered))

\* the line is "  " * k, the marker and an entry, on standard output
WellFormed(line) ==
    LET k == Indent(line.text)
    IN  /\ line.stream = "stdout"
        /\ k % 2 = 0
        /\ SubSeq(line.text, 1, k + Len(TreeMarker)) = Spaces(k \div 2) \o TreeMarker
        /\ Len(line.text) > k + Len(TreeMarker)

\* the line under which each of the first j lines hangs: the last line
\* before it that is one level up; 0 stands for the root marker, -1 for no
\* such line
RECURSIVE ParentsOf(_, _)
ParentsOf(level, j) ==
    IF j = 0 THEN <<>>
    ELSE Append(ParentsOf(level, j - 1),
                IF level[j] = 0 THEN 0
                ELSE LET above == {i \in 1..(j - 1) : level[i] = level[j] - 1}
                     IN  IF above = {} THEN 0 - 1
                         ELSE CHOOSE i \in above : \A k \in above : k <= i)

ParentLines(level) == ParentsOf(level, Len(level))

\* the node a line (or the root marker) stands for
LineNode(child, i) == IF i = 0 THEN top_link ELSE child[i]

\* the lines that print the edge p -> c
LinesOfEdge(parent, child, p, c) ==
    {j \in DOMAIN child :
        child[j] = c /\ parent[j] >= 0 /\ LineNode(child, parent[j]) = p}

\* the entries printed directly under line i among the first j lines, in order
RECURSIVE PrintedUnder(_, _, _, _)
PrintedUnder(parent, child, i, j) ==
    IF j = 0 THEN <<>>
    ELSE LET before == PrintedUnder(parent, child, i, j - 1)
         IN  IF parent[j] = i THEN Append(before, child[j]) ELSE before

(***************************************************************************)
(* C18  Rendering, as claimed: the tree printed for a finished link graph  *)
(* has exactly one line for each recorded edge (none omitted, none printed *)
(* twice), the line of an edge at walk depth k being indented by 2*k       *)
(* blanks and prefixed with the marker.                                    *)
(***************************************************************************)
C18_OneLinePerEdge ==
    pc = "done" =>
        LET child == LineChildren
            parent == ParentLines(LineLevels)
            lines == Rendered
        IN  /\ \A j \in 1..Len(lines) : WellFormed(lines[j]) /\ parent[j] >= 0
            /\ \A p \in DOMAIN link_graph : \A k \in 1..Len(link_graph[p]) :
                  Cardinality(LinesOfEdge(parent, child, p, link_graph[p][k]))
                      = EntryCount(p, link_graph[p][k])

(***************************************************************************)
(* C18  amended: the tree printed for a finished link graph has one line   *)
(* for each recorded edge each time the walk reaches the edge's parent:    *)
(* under the root marker and under every printed line stand exactly the    *)
(* recorded children of that node, in recorded order (nothing under a node *)
(* with no recorded children); every node with recorded children is        *)
(* printed, so no edge is omitted, and an edge is printed again whenever   *)
(* its parent occurs again in the tree; the line of an edge at walk depth  *)
(* k is indented by 2*k blanks and prefixed with the marker.               *)
(***************************************************************************)
C18_LinePerOccurrence ==
    pc = "done" =>
        LET child == LineChildren
            parent == ParentLines(LineLevels)
            lines == Rendered
            n == Len(lines)
        IN  /\ \A j \in 1..n : WellFormed(lines[j]) /\ parent[j] >= 0
            /\ \A i \in 0..n :
                  PrintedUnder(parent, child, i, n)
                      = IF LineNode(child, i) \in DOMAIN link_graph
                        THEN link_graph[LineNode(child, i)] ELSE <<>>
            /\ \A p \in DOMAIN link_graph :
                  p # top_link => \E j \in 1..n : child[j] = p

\* a finished run whose tree shows a page with recorded children twice, so
\* that an edge recorded once is printed on two lines
C18_Witness ==
    /\ pc = "done"
    /\ \E p \in DOMAIN link_graph : \E k \in 1..Len(link_graph[p]) :
          /\ p # top_link
          /\ EntryCount(p, link_graph[p][k]) = 1
          /\ Cardinality(LinesOfEdge(ParentLines(LineLevels), LineChildren, p,
                                     link_graph[p][k])) = 2

(***************************************************************************)
(* C20  Stack seeding, as claimed: every seed frame is on the stack before *)
(* the first frame is popped, so that all seed frames are pending at once  *)
(* and the loop runs once: after a frame has been popped no seed is taken  *)
(* from the list any more.                                                 *)
(***************************************************************************)
Popped == log # <<>> \/ dropped # {}

C20_SeededAtOnce == [][Popped => urls' = urls]_vars

(***************************************************************************)
(* C20  amended: the seed frames are never pending together.  Each seed,   *)
(* in input order, is pushed alone, with no parent and depth 0, onto the   *)
(* empty stack, and the loop then runs until the stack is empty before the *)
(* next seed is taken: the loop runs once per seed, and at most one seed   *)
(* frame, the bottom one, is on the stack at any time.                     *)
(***************************************************************************)
SeedFramesPending == {i \in 1..Len(stack) : stack[i].parent = None}

C20_OneSeedAtATime ==
    /\ [](/\ SeedFramesPending \subseteq {1}
          /\ \A i \in SeedFramesPending :
                stack[i] = Frame(urls[Len(urls)], None, 0))
    /\ [][urls' # urls =>
             /\ stack = <<>>
             /\ urls' = Append(urls, urls'[Len(urls')])
             /\ stack' = <<Frame(urls'[Len(urls')], None, 0)>>
             /\ pc' = "crawl"]_vars
    /\ [][(pc = "crawl" /\ pc' = "main") => (stack = <<>> /\ stack' = <<>>)]_vars

\* the second seed's frame is alone on the stack after frames of the first
\* seed's traversal were popped
C20_Witness ==
    /\ pc = "crawl"
    /\ Len(urls) = 2
    /\ Popped
    /\ stack = <<Frame(urls[2], None, 0)>>

(***************************************************************************)
(* webpage-traverse.py, run on the command line and the web of a finished  *)
(* run of webpage.py: a download has the outcome it had in that run.       *)
(***************************************************************************)
\* the state of webpage.py
program == <<args, urls, pc, exit_status, printed, visited_links, link_graph,
             stack, log, pushed, dropped, grammar_i, grammar_numbers,
             keep_order, iterated>>

\* depth=int(depth)
t_max_depth == DepthOf[args.depth]

TraverseTop == t_stack[Len(t_stack)]
TraverseRest == SubSeq(t_stack, 1, Len(t_stack) - 1)

\* if current_url not in visited_links and depth <= max_depth
TraverseShouldVisit(f) == f.url \notin t_visited_links /\ f.depth <= t_max_depth

\* the BROKEN LINK branch of webpage-traverse.py tags without asking for -b
TraverseFailedEntry(url) == IF IsMailto(url) THEN url ELSE url \o BrokenSuffix

\* the outcomes download_page may have for an address on this web
MayFail(url) == \A n \in LogIndexes : log[n].url = url => ~log[n].ok
MaySucceed(url) ==
    CanDownload(url) /\ \A n \in LogIndexes : log[n].url = url => log[n].ok

\* the command line has one seed, -b and -s, and nothing webpage-traverse.py
\* does not know: crawl_web(url, depth, anchor, verbose) starts
TraverseStart ==
    /\ pc = "done"
    /\ t_pc = "idle"
    /\ Len(urls) = 1
    /\ args.broken_links /\ args.spelling
    /\ ~args.write_files /\ ~args.punctuation
    /\ t_pc' = "crawl"
    /\ t_stack' = <<Frame(urls[1], None, 0)>>
    /\ UNCHANGED <<program, t_visited_links, t_link_graph>>

TraverseDiscard ==
    /\ t_pc = "crawl"
    /\ t_stack # <<>>
    /\ ~TraverseShouldVisit(TraverseTop)
    /\ t_stack' = TraverseRest
    /\ UNCHANGED <<program, t_pc, t_visited_links, t_link_graph>>

TraverseDownloadFails ==
    /\ t_pc = "crawl"
    /\ t_stack # <<>>
    /\ TraverseShouldVisit(TraverseTop)
    /\ MayFail(TraverseTop.url)
    /\ t_visited_links' = t_visited_links \cup {TraverseTop.url}
    /\ t_link_graph' =
          IF TraverseTop.parent # None
          THEN AppendChild(t_link_graph, TraverseTop.parent,
                           TraverseFailedEntry(TraverseTop.url))
          ELSE t_link_graph
    /\ t_stack' = TraverseRest
    /\ UNCHANGED <<program, t_pc>>

TraverseVisitPage ==
    /\ t_pc = "crawl"
    /\ t_stack # <<>>
    /\ TraverseShouldVisit(TraverseTop)
    /\ MaySucceed(TraverseTop.url)
    /\ \E order \in Orders(extract_links(PageHrefs(TraverseTop.url))) :
          LET f == TraverseTop
              kids == IF ExpandGate(f) THEN Children(order, f) ELSE <<>>
          IN  /\ t_visited_links' = t_visited_links \cup {f.url}
              /\ t_link_graph' =
                    IF f.parent # None THEN AppendChild(t_link_graph, f.parent, f.url)
                                       ELSE t_link_graph
              /\ t_stack' = TraverseRest \o kids
    /\ UNCHANGED <<program, t_pc>>

\* extract_links raises as it does in webpage.py: nothing catches it
TraverseExtractRaises ==
    /\ t_pc = "crawl"
    /\ t_stack # <<>>
    /\ TraverseShouldVisit(TraverseTop)
    /\ MaySucceed(TraverseTop.url)
    /\ t_visited_links' = t_visited_links \cup {TraverseTop.url}
    /\ t_stack' = TraverseRest
    /\ t_pc' = "crashed"
    /\ UNCHANGED <<program, t_link_graph>>

\* "while stack" ends: return link_graph
TraverseReturn ==
    /\ t_pc = "crawl"
    /\ t_stack = <<>>
    /\ t_pc' = "done"
    /\ UNCHANGED <<program, t_stack, t_visited_links, t_link_graph>>

VariantNext ==
    \/ Next
    \/ TraverseStart
    \/ TraverseDiscard
    \/ TraverseDownloadFails
    \/ TraverseExtractRaises
    \/ TraverseVisitPage
    \/ TraverseReturn

\* webpage.py, then webpage-traverse.py with the same arguments
VariantSpec == Init /\ [][VariantNext]_vars

(***************************************************************************)
(* Reading the link graph back against the log.                            *)
(***************************************************************************)
\* the iteration of "while stack" that e describes appended to link_graph
Recorded(e) == e.parent # None /\ (~e.ok \/ e.extracted)

\* the entry it appended
EntryOf(e) == IF e.ok THEN e.url ELSE FailedEntry(e.url)

\* the indexes of the first n log records that appended under parent p
RECURSIVE ChildLog(_, _)
ChildLog(p, n) ==
    IF n = 0 THEN <<>>
    ELSE IF log[n].parent = p /\ Recorded(log[n])
         THEN Append(ChildLog(p, n - 1), n)
         ELSE ChildLog(p, n - 1)

RecordedChildren(p) == ChildLog(p, Len(log))

\* where x stands in a sequence without repetitions
Pos(seq, x) == CHOOSE k \in 1..Len(seq) : seq[k] = x

\* C21 (as stated): under every page p the recorded children stand in the
\* order in which "for link in links" took them from the extractor's result
\* and pushed them as frames with parent p.
C21_DiscoveryOrder ==
    \A p \in DOMAIN link_graph \ {top_link} :
        LET kids == RecordedChildren(p)
        IN  /\ link_graph[p] = [k \in 1..Len(kids) |-> EntryOf(log[kids[k]])]
            /\ \A a, b \in 1..Len(kids) :
                   a < b => Pos(iterated[p], log[kids[a]].url)
                               < Pos(iterated[p], log[kids[b]].url)

\* C21 (amended): under every page p the recorded children stand in the
\* reverse of the order in which their frames were pushed: the stack is
\* last-in first-out and an edge is appended when its frame is fetched.
\* Under the root marker the seeds stand in the order of the command line.
C21_ReversePushOrder ==
    /\ link_graph[top_link] = urls
    /\ \A p \in DOMAIN link_graph \ {top_link} :
          LET kids == RecordedChildren(p)
          IN  /\ link_graph[p] = [k \in 1..Len(kids) |-> EntryOf(log[kids[k]])]
              /\ \A a, b \in 1..Len(kids) :
                     a < b => Pos(iterated[p], log[kids[a]].url)
                                 > Pos(iterated[p], log[kids[b]].url)

\* a finished run in which some page has two recorded children
C21_Witness ==
    /\ pc = "done"
    /\ keep_order
    /\ \E p \in DOMAIN link_graph \ {top_link} : Len(link_graph[p]) >= 2

\* a step of "while stack" that pops a frame failing the guard of line 225
DiscardStep == pc = "crawl" /\ stack # <<>> /\ ~ShouldVisit(Top) /\ stack' # stack

\* C22: discarding a frame changes nothing but the stack: the visited set,
\* the link graph and the output stay as they were, nothing is fetched and
\* nothing is pushed; so an address is in the visited set only if it was
\* fetched, and an address discarded for its depth alone is not marked.
C22_DiscardNoEffect ==
    /\ [](\A u \in visited_links : Fetches(u) # {})
    /\ [][DiscardStep => /\ stack' = Rest
                         /\ visited_links' = visited_links
                         /\ link_graph' = link_graph
                         /\ log' = log
                         /\ pushed' = pushed
                         /\ printed' = printed]_vars

\* a frame was discarded for its depth alone and its address was fetched
\* afterwards through a shallower frame: the fetched frame was pushed (while
\* record k was made) before the discarded one (record j) and popped after it
C22_Witness ==
    \E f \in dropped : \E k, j, n \in LogIndexes :
        /\ f.depth > max_depth
        /\ k < j /\ j < n
        /\ log[j].url = f.parent
        /\ log[n].url = f.url
        /\ log[n].parent = log[k].url
        /\ log[n].depth < f.depth
        /\ log[n].ok

\* C23: in a finished run with a user depth d >= 0 the rendering walk from
\* the root marker is never more than d + 1 calls deep, counting the calls
\* that print a line (the call on the root marker and on every key below
\* it): no chain of d + 2 recorded edges leaves the root marker.
C23_RenderDepth ==
    (pc = "done" /\ int(args.depth) >= 0)
        => ~Deep(link_graph, top_link, int(args.depth) + 2)

\* C24: in a finished run with -b, an address whose download failed and that
\* is no mailto address stands nowhere in the link graph in plain form, not
\* under a page and not, as a seed, under the root marker.
C24_BrokenTagged ==
    (pc = "done" /\ args.broken_links)
        => \A n \in LogIndexes :
              (~log[n].ok /\ ~IsMailto(log[n].url))
                  => \A p \in DOMAIN link_graph : ~HasEntry(p, log[n].url)

\* C25: the numbers of the "Grammar:" lines of a run strictly increase, over
\* all pages and all seeds: no number is printed twice.
C25_GlobalCounter ==
    \A a, b \in 1..Len(grammar_numbers) :
        a < b => grammar_numbers[a] < grammar_numbers[b]

\* C26: in every state the edges below the root marker are exactly the ones
\* appended when their target was fetched for the first and only time: each
\* page's child sequence is the sequence of entries of the fetches made
\* through it, the target of every edge is in the visited set, the parent is
\* an address that was downloaded and whose links were extracted, and no
\* address is fetched, and so made the target of such an edge, twice.
C26_DiscoveryForest ==
    /\ \A p \in DOMAIN link_graph \ {top_link} :
          LET kids == RecordedChildren(p)
          IN  /\ link_graph[p] = [k \in 1..Len(kids) |-> EntryOf(log[kids[k]])]
              /\ \E n \in LogIndexes :
                     log[n].url = p /\ log[n].ok /\ log[n].extracted
    /\ \A n \in LogIndexes :
          /\ log[n].url \in visited_links
          /\ Recorded(log[n]) => log[n].parent \in DOMAIN link_graph
          /\ \A m \in LogIndexes : log[m].url = log[n].url => m = n

\* a finished run with a page recorded under a page that is itself recorded
\* under a page, and a failed download among the recorded children
C26_Witness ==
    /\ pc = "done"
    /\ \E p, q \in DOMAIN link_graph \ {top_link} :
          /\ p # q
          /\ \E k \in Range(RecordedChildren(p)) : log[k].url = q
          /\ \E k \in LogIndexes : log[k].parent = q /\ ~log[k].ok

\* C27: whatever the seeds, the recorded entries never lead from the root
\* marker back to a key the walk is already printing, so print_link_tree
\* ends.
C27_Acyclic == WalkEnds(link_graph)

\* the entries stored under the pages of a link graph, as parent-entry pairs
EdgesBelow(g) ==
    UNION {{<<p, g[p][k]>> : k \in 1..Len(g[p])} : p \in DOMAIN g \ {top_link}}

\* C28: when both programs have finished a run with the same single seed,
\* scope substring and user depth (not negative) on the same web, with -b
\* and -s, they
\* have fetched the same set of addresses and hold the same parent-child
\* entries below the seed.
C28_VariantsAgree ==
    (pc = "done" /\ t_pc = "done" /\ int(args.depth) >= 0)
        => /\ t_visited_links = visited_links
           /\ EdgesBelow(t_link_graph) = EdgesBelow(link_graph)

====
